---- MODULE Spec2Model ----
(***************************************************************************)
(* Model of CUpwScalar<FlowIndices>, the template class of scalar upwind   *)
(* fluxes between nodes i and j                                            *)
(* (SU2_CFD/include/numerics/scalar/scalar_convection.hpp).                *)
(*                                                                         *)
(* Numbers.  su2double values are modelled by integers.  The inputs        *)
(* (Normal, V_i, V_j, GridVel_i, GridVel_j, ScalarVar_i, ScalarVar_j) are  *)
(* held in whole units.  Everything the class derives from them (q_ij, a0, *)
(* a1, Flux, Jacobian_i, Jacobian_j) is held in HALF units, i.e. the       *)
(* stored integer is twice the value: the factor 0.5 of lines 131 and 135  *)
(* turns a whole-unit product into the same number of half units, and the  *)
(* factor 0.5 of lines 139-140 halves an even number of half units.  With  *)
(* finite operands in range these are the exact results of the double      *)
(* arithmetic (sums, products and halvings of small integers and           *)
(* half-integers are exact in binary floating point).                      *)
(***************************************************************************)
EXTENDS Integers, Sequences, FiniteSets

VARIABLES
  nDim,          \* CNumerics::nDim, fixed by the constructor (line 78)
  nVar,          \* CNumerics::nVar, fixed by the constructor (line 78)
  implicit,      \* const bool implicit (lines 56, 79); ComputeResidual never reads it
  dynamic_grid,  \* const bool dynamic_grid (lines 56, 81)
  callerDim,     \* number of dimensions of the vectors the driver hands over
  callerVar,     \* width of the scalar vectors the driver hands over
  mesh,          \* the edge states the driver iterates over
  numerics,      \* engine instance -> its members (inputs, a0, a1, buffers)
  inst,          \* thread -> the engine instance it calls
  tapeOf,        \* thread -> the AD tape it records on
  pc,            \* thread -> its position inside ComputeResidual
  q_ij,          \* thread -> the local q_ij of its (latest) call (line 126)
  myEdge,        \* thread -> the edge state it handed to its engine
  view,          \* thread -> the ResidualType returned by its latest call
  got,           \* thread -> what the returned view showed at the return
  tape,          \* tape -> [log, open, err]: the events of its current (or
                 \* last) scope, whether a scope is open, and whether the
                 \* open/close protocol was ever broken on it
  firstIn,       \* edge state of the first call on engine 1
  firstOut,      \* what the view of that first call showed when it returned
  firstView,     \* the view that first call returned
  other          \* a call on an edge state other than firstIn has returned

vars == <<nDim, nVar, implicit, dynamic_grid, callerDim, callerVar, mesh,
          numerics, inst, tapeOf, pc, q_ij, myEdge, view, got,
          tape, firstIn, firstOut, firstView, other>>

config == <<nDim, nVar, implicit, dynamic_grid, callerDim, callerVar, mesh,
            inst, tapeOf>>
first == <<firstIn, firstOut, firstView>>

(***************************************************************************)
(* Bounds of the model.                                                    *)
(***************************************************************************)
MaxDim == 2
MaxVar == 2

\* What uninitialised or out-of-bounds memory may hold: zero (an AD build's
\* su2double default-constructs to zero) or anything else.
GarbageVals == {0, 77}

Abs(x) == IF x < 0 THEN -x ELSE x

(***************************************************************************)
(* A read of a C array: element i when the array has one, whatever the     *)
(* memory behind it holds (w) otherwise.                                   *)
(***************************************************************************)
Rd(vec, i, w) == IF i \in DOMAIN vec THEN vec[i] ELSE w

(***************************************************************************)
(* The primitive state vector of one side as the driver lays it out for a  *)
(* flow of nd dimensions: [0] temperature, [1..nd] velocity, [nd+1]        *)
(* pressure, [nd+2] density.                                               *)
(***************************************************************************)
Prim(nd, vel, rho) ==
  [k \in 0 .. nd + 2 |->
     IF k = 0 THEN 7
     ELSE IF k <= nd THEN vel[k - 1]
     ELSE IF k = nd + 1 THEN 9
     ELSE rho]

(***************************************************************************)
(* The constructor (lines 77-89): a0 and a1 take their default member      *)
(* initialisers (lines 50-51); Flux and the two Jacobians are allocated    *)
(* with new su2double[nVar] and never written, so every entry holds        *)
(* whatever the allocation holds (g).  No argument is validated.  The      *)
(* input members belong to CNumerics and point nowhere until the driver    *)
(* sets them.                                                              *)
(***************************************************************************)
Constructor(nvar, g) ==
  [Normal      |-> <<>>, V_i |-> <<>>, V_j |-> <<>>,
   GridVel_i   |-> <<>>, GridVel_j |-> <<>>,
   ScalarVar_i |-> <<>>, ScalarVar_j |-> <<>>,
   Density_i   |-> 0, Density_j |-> 0,
   a0          |-> 0,
   a1          |-> 0,
   Flux        |-> [k \in 0 .. nvar - 1 |-> g],
   Jacobian_i  |-> [k \in 0 .. nvar - 1 |-> [l \in 0 .. nvar - 1 |-> g]],
   Jacobian_j  |-> [k \in 0 .. nvar - 1 |-> [l \in 0 .. nvar - 1 |-> g]]]

(***************************************************************************)
(* The driver hands the state of one edge to an engine (the CNumerics      *)
(* setters: SetNormal, SetPrimitive, SetScalarVar, SetGridVel).            *)
(***************************************************************************)
SetEdge(o, x) ==
  [o EXCEPT !.Normal = x.Normal, !.V_i = x.V_i, !.V_j = x.V_j,
            !.GridVel_i = x.GridVel_i, !.GridVel_j = x.GridVel_j,
            !.ScalarVar_i = x.ScalarVar_i, !.ScalarVar_j = x.ScalarVar_j]

(***************************************************************************)
(* Lines 113-119: the base inputs registered for preaccumulation, in       *)
(* order; the grid velocities only under dynamic_grid.                     *)
(***************************************************************************)
PreaccInAlways(dyn) ==
  <<"In:Normal", "In:ScalarVar_i", "In:ScalarVar_j",
    "In:GridVel_i", "In:GridVel_j">>

PreaccIn(dyn) ==
  <<"In:Normal", "In:ScalarVar_i", "In:ScalarVar_j">>
  \o (IF dyn THEN <<"In:GridVel_i", "In:GridVel_j">> ELSE <<>>)

(***************************************************************************)
(* Lines 123-124: Density_i = V_i[nDim + 2], Density_j = V_j[nDim + 2].    *)
(***************************************************************************)
ReadDensity(o, nd, w) ==
  [o EXCEPT !.Density_i = Rd(o.V_i, nd + 2, w),
            !.Density_j = Rd(o.V_j, nd + 2, w)]

(***************************************************************************)
(* Line 126: su2double q_ij = 0.0.  old is what the variable's storage     *)
(* held before the declaration.                                            *)
(***************************************************************************)
DeclareQStale(old) == old

DeclareQ(old) == 0

(***************************************************************************)
(* Lines 129-130 and 135: the velocity component of one side that enters   *)
(* q_ij: relative to the grid under dynamic_grid, the flow velocity        *)
(* otherwise.                                                              *)
(***************************************************************************)
VelocityNoGrid(dyn, v, g) == v

VelocityAlwaysGrid(dyn, v, g) == v - g

Velocity(dyn, v, g) == IF dyn THEN v - g ELSE v

(***************************************************************************)
(* Lines 127-137: the loop over iDim, from iDim up to nd - 1, adding       *)
(* 0.5 * (Velocity_i + Velocity_j) * Normal[iDim] to q (half units).       *)
(***************************************************************************)
RECURSIVE SpeedLoop(_, _, _, _, _, _)
SpeedLoop(iDim, nd, dyn, o, w, q) ==
  IF iDim >= nd THEN q
  ELSE LET Velocity_i == Velocity(dyn, Rd(o.V_i, iDim + 1, w),
                                       Rd(o.GridVel_i, iDim, w))
           Velocity_j == Velocity(dyn, Rd(o.V_j, iDim + 1, w),
                                       Rd(o.GridVel_j, iDim, w))
       IN SpeedLoop(iDim + 1, nd, dyn, o, w,
                    q + (Velocity_i + Velocity_j) * Rd(o.Normal, iDim, w))

(***************************************************************************)
(* Lines 139-140: a0 = 0.5 * (q_ij + fabs(q_ij)),                          *)
(*                a1 = 0.5 * (q_ij - fabs(q_ij)).                          *)
(***************************************************************************)
SplitA0NoAbs(q) == (q + q) \div 2

SplitA0(q) == (q + Abs(q)) \div 2

SplitA1Plus(q) == (q + Abs(q)) \div 2

SplitA1(q) == (q - Abs(q)) \div 2

Split(o, q) == [o EXCEPT !.a0 = SplitA0(q), !.a1 = SplitA1(q)]

(***************************************************************************)
(* Line 142: FinishResidualCalc is pure virtual (line 68).  This is the    *)
(* linear upwind model: Flux = a0*ScalarVar_i + a1*ScalarVar_j,            *)
(* Jacobian_i = a0*I, Jacobian_j = a1*I, every entry written in implicit   *)
(* and in explicit mode.                                                   *)
(***************************************************************************)
FinishResidualCalc(o, nvar, w) ==
  [o EXCEPT
     !.Flux = [k \in 0 .. nvar - 1 |->
                 o.a0 * Rd(o.ScalarVar_i, k, w) + o.a1 * Rd(o.ScalarVar_j, k, w)],
     !.Jacobian_i = [k \in 0 .. nvar - 1 |->
                       [l \in 0 .. nvar - 1 |-> IF k = l THEN o.a0 ELSE 0]],
     !.Jacobian_j = [k \in 0 .. nvar - 1 |->
                       [l \in 0 .. nvar - 1 |-> IF k = l THEN o.a1 ELSE 0]]]

(***************************************************************************)
(* Line 147: ResidualType<>(Flux, Jacobian_i, Jacobian_j) holds the three  *)
(* pointers of engine e; nothing is copied.  A view is read through Deref. *)
(***************************************************************************)
Buffers(o) ==
  [Flux |-> o.Flux, Jacobian_i |-> o.Jacobian_i, Jacobian_j |-> o.Jacobian_j]

NoBuffers == [Flux |-> <<>>, Jacobian_i |-> <<>>, Jacobian_j |-> <<>>]

NullView == [ref |-> 0, copy |-> NoBuffers]

ResidualTypeCopy(e, o) == [ref |-> 0, copy |-> Buffers(o)]

ResidualType(e, o) == [ref |-> e, copy |-> NoBuffers]

\* What a caller reads through view v when the engines hold num.
Deref(v, num) == IF v.ref = 0 THEN v.copy ELSE Buffers(num[v.ref])

(***************************************************************************)
(* The AD tape (namespace AD): StartPreacc opens a preaccumulation scope   *)
(* and starts its list of events afresh, SetPreaccIn and SetPreaccOut add  *)
(* to the open scope, EndPreacc closes it.  err records a scope opened     *)
(* while one is open, or anything recorded or closed while none is.  The   *)
(* log also keeps, as markers, the steps of the call that are not tape     *)
(* operations (the model hooks, the first read of the flow state, the      *)
(* split).  Each entry is <<engine, event>>.                               *)
(***************************************************************************)
NewTape == [log |-> <<>>, open |-> FALSE, err |-> FALSE]

StartPreacc(ts, e) ==
  [log |-> << <<e, "StartPreacc">> >>, open |-> TRUE, err |-> ts.err \/ ts.open]

Record(ts, e, ev) ==
  [ts EXCEPT !.log = Append(@, <<e, ev>>), !.err = @ \/ ~ts.open]

EndPreacc(ts, e) ==
  [log |-> Append(ts.log, <<e, "EndPreacc">>), open |-> FALSE,
   err |-> ts.err \/ ~ts.open]

RECURSIVE Play(_, _, _)
Play(ts, e, evs) ==
  IF evs = <<>> THEN ts
  ELSE LET ev == Head(evs)
           nxt == IF ev = "StartPreacc" THEN StartPreacc(ts, e)
                  ELSE IF ev = "EndPreacc" THEN EndPreacc(ts, e)
                  ELSE Record(ts, e, ev)
       IN Play(nxt, e, Tail(evs))

(***************************************************************************)
(* The events of ComputeResidual, statement by statement.                  *)
(***************************************************************************)
\* lines 112-121
EvOpen(dyn) == <<"StartPreacc">> \o PreaccIn(dyn) \o <<"ExtraADPreaccIn">>
\* lines 123-124
EvDensity == <<"Read:V">>
\* lines 139-140
EvSplit == <<"Split">>
\* line 142
EvFinish == <<"FinishResidualCalc">>
\* lines 144-145
EvClose == <<"Out:Flux", "EndPreacc">>

(***************************************************************************)
(* Edge states.  The driver of a flow of cd dimensions with cv scalar      *)
(* variables hands over vectors of these widths.                           *)
(***************************************************************************)
NoEdge ==
  [Normal |-> <<>>, V_i |-> <<>>, V_j |-> <<>>, GridVel_i |-> <<>>,
   GridVel_j |-> <<>>, ScalarVar_i |-> <<>>, ScalarVar_j |-> <<>>]

Edges(cd, NS, VI, VJ, GI, GJ, SI, SJ) ==
  {[Normal |-> n, V_i |-> Prim(cd, vi, 1), V_j |-> Prim(cd, vj, 1),
    GridVel_i |-> gi, GridVel_j |-> gj, ScalarVar_i |-> si, ScalarVar_j |-> sj] :
     n \in NS, vi \in VI, vj \in VJ, gi \in GI, gj \in GJ, si \in SI, sj \in SJ}

\* Two scalar states of width cv: (3, 4, ..) and (5, 3, ..).
ScalarStates(cv) ==
  {[k \in 0 .. cv - 1 |-> 3 + k], [k \in 0 .. cv - 1 |-> 5 - 2 * k]}

\* Vectors of width cd whose component d is drawn from S0 (d = 0) or S1.
Vecs(cd, S0, S1) ==
  {f \in [0 .. cd - 1 -> S0 \cup S1] :
     \A d \in 0 .. cd - 1 : f[d] \in (IF d = 0 THEN S0 ELSE S1)}

\* The edge states a single call is checked on.
AllEdges(cd, cv) ==
  Edges(cd, Vecs(cd, {-1, 0, 1}, {0, 1}),
            Vecs(cd, {-1, 0, 2}, {0, 2}), Vecs(cd, {-1, 0, 2}, {0}),
            Vecs(cd, {0, 2}, {0}), Vecs(cd, {0, 2}, {0}),
            ScalarStates(cv), ScalarStates(cv))

\* The edges of the small mesh that sequences of calls run over.
SmallMesh(cd, cv) ==
  Edges(cd, Vecs(cd, {-1, 0, 1}, {0}),
            Vecs(cd, {2}, {0}), Vecs(cd, {-1, 2}, {0}),
            Vecs(cd, {0, 2}, {0}), Vecs(cd, {2}, {0}),
            ScalarStates(cv), {[k \in 0 .. cv - 1 |-> 5 - 2 * k]})

(***************************************************************************)
(* Initial states: the engines engs are constructed from one configuration *)
(* (ndim, nvar, config); nothing has been computed.                        *)
(***************************************************************************)
InitWith(engs, thrs, tps) ==
  /\ nDim \in 1 .. MaxDim
  /\ nVar \in 1 .. MaxVar
  /\ implicit \in BOOLEAN
  /\ dynamic_grid \in BOOLEAN
  /\ numerics \in {[e \in engs |-> Constructor(nVar, g)] : g \in GarbageVals}
  /\ inst \in [thrs -> engs]
  /\ tapeOf \in [thrs -> tps]
  /\ pc = [t \in thrs |-> "idle"]
  /\ q_ij = [t \in thrs |-> 0]
  /\ myEdge = [t \in thrs |-> NoEdge]
  /\ view = [t \in thrs |-> NullView]
  /\ got = [t \in thrs |-> NoBuffers]
  /\ tape = [k \in tps |-> NewTape]
  /\ firstIn = NoEdge
  /\ firstOut = NoBuffers
  /\ firstView = NullView
  /\ other = FALSE

\* What a read outside an array may return in this configuration.
Wild == IF callerDim = nDim /\ callerVar = nVar THEN {0} ELSE GarbageVals

\* q_ij is a local of ComputeResidual: every call (thread) has its own.
QSlotStatic(t) == 1

QSlot(t) == t

(***************************************************************************)
(* One whole call: the driver hands edge x to the engine of thread t and   *)
(* calls ComputeResidual (lines 111-148), which runs to its return.        *)
(***************************************************************************)
ComputeResidual(t) ==
  /\ pc[t] = "idle"
  /\ \E x \in mesh, w \in Wild :
       LET e  == inst[t]
           k  == tapeOf[t]
           o1 == ReadDensity(SetEdge(numerics[e], x), nDim, w)
           q  == SpeedLoop(0, nDim, dynamic_grid, o1, w, DeclareQ(q_ij[QSlot(t)]))
           o2 == FinishResidualCalc(Split(o1, q), nVar, w)
           v  == ResidualType(e, o2)
           num == [numerics EXCEPT ![e] = o2]
       IN /\ numerics' = num
          /\ q_ij' = [q_ij EXCEPT ![QSlot(t)] = q]
          /\ tape' = [tape EXCEPT ![k] =
                        Play(@, e, EvOpen(dynamic_grid) \o EvDensity \o EvSplit
                                   \o EvFinish \o EvClose)]
          /\ myEdge' = [myEdge EXCEPT ![t] = x]
          /\ view' = [view EXCEPT ![t] = v]
          /\ got' = [got EXCEPT ![t] = Deref(v, num)]
          /\ IF firstView = NullView
             THEN /\ firstIn' = x
                  /\ firstOut' = Deref(v, num)
                  /\ firstView' = v
                  /\ other' = other
             ELSE /\ UNCHANGED first
                  /\ other' = (other \/ x # firstIn)
  /\ UNCHANGED <<config, pc>>

(***************************************************************************)
(* Sequences of calls by one thread on one engine over a small mesh.       *)
(***************************************************************************)
Init ==
  /\ InitWith({1}, {1}, {1})
  /\ callerDim = nDim
  /\ callerVar = nVar
  /\ mesh = SmallMesh(callerDim, callerVar)

Next == \E t \in DOMAIN pc : ComputeResidual(t)

Spec == Init /\ [][Next]_vars

(***************************************************************************)
(* One edge per behaviour, drawn from a large set: the call as a function  *)
(* of its inputs.                                                          *)
(***************************************************************************)
InitEdge ==
  /\ InitWith({1}, {1}, {1})
  /\ callerDim = nDim
  /\ callerVar = nVar
  /\ mesh \in {{x} : x \in AllEdges(callerDim, callerVar)}

SpecEdge == InitEdge /\ [][Next]_vars

(***************************************************************************)
(* The driver may hand over vectors whose widths differ from the engine's  *)
(* nDim and nVar: the constructor is given two numbers and checks nothing, *)
(* and ComputeResidual indexes the vectors it was given by them.           *)
(***************************************************************************)
InitMismatch ==
  /\ InitWith({1}, {1}, {1})
  /\ callerDim \in 1 .. MaxDim
  /\ callerVar \in 1 .. MaxVar
  /\ mesh \in {{x} : x \in SmallMesh(callerDim, callerVar)}

SpecMismatch == InitMismatch /\ [][Next]_vars

(***************************************************************************)
(* Two threads, each inside one call of ComputeResidual, statement by      *)
(* statement.  They call the same engine or one each, and record on the    *)
(* same tape or one each.                                                  *)
(***************************************************************************)
ConcMesh(cd, cv) ==
  Edges(cd, Vecs(cd, {1}, {0}),
            Vecs(cd, {2}, {0}), Vecs(cd, {-1, 2}, {0}),
            Vecs(cd, {2}, {0}), Vecs(cd, {2}, {0}),
            ScalarStates(cv), {[k \in 0 .. cv - 1 |-> 5 - 2 * k]})

InitConc ==
  /\ InitWith({1, 2}, {1, 2}, {1, 2})
  /\ nDim = 1
  /\ implicit
  /\ inst[1] = 1
  /\ tapeOf[1] = 1
  /\ callerDim = nDim
  /\ callerVar = nVar
  /\ mesh = ConcMesh(callerDim, callerVar)

\* The driver of thread t hands an edge to its engine.
HandEdge(t) ==
  /\ pc[t] = "idle"
  /\ \E x \in mesh :
       /\ myEdge' = [myEdge EXCEPT ![t] = x]
       /\ numerics' = [numerics EXCEPT ![inst[t]] = SetEdge(@, x)]
  /\ pc' = [pc EXCEPT ![t] = "open"]
  /\ UNCHANGED <<config, q_ij, view, got, tape, first, other>>

\* lines 112-121
StepOpen(t) ==
  /\ pc[t] = "open"
  /\ tape' = [tape EXCEPT ![tapeOf[t]] = Play(@, inst[t], EvOpen(dynamic_grid))]
  /\ pc' = [pc EXCEPT ![t] = "density"]
  /\ UNCHANGED <<config, numerics, q_ij, myEdge, view, got, first, other>>

\* lines 123-124
StepDensity(t) ==
  /\ pc[t] = "density"
  /\ \E w \in Wild :
       numerics' = [numerics EXCEPT ![inst[t]] = ReadDensity(@, nDim, w)]
  /\ tape' = [tape EXCEPT ![tapeOf[t]] = Play(@, inst[t], EvDensity)]
  /\ pc' = [pc EXCEPT ![t] = "speed"]
  /\ UNCHANGED <<config, q_ij, myEdge, view, got, first, other>>

\* lines 126-137
StepSpeed(t) ==
  /\ pc[t] = "speed"
  /\ \E w \in Wild :
       q_ij' = [q_ij EXCEPT ![QSlot(t)] =
                  SpeedLoop(0, nDim, dynamic_grid, numerics[inst[t]], w,
                            DeclareQ(q_ij[QSlot(t)]))]
  /\ pc' = [pc EXCEPT ![t] = "split"]
  /\ UNCHANGED <<config, numerics, myEdge, view, got, tape, first, other>>

\* lines 139-140
StepSplit(t) ==
  /\ pc[t] = "split"
  /\ numerics' = [numerics EXCEPT ![inst[t]] = Split(@, q_ij[QSlot(t)])]
  /\ tape' = [tape EXCEPT ![tapeOf[t]] = Play(@, inst[t], EvSplit)]
  /\ pc' = [pc EXCEPT ![t] = "finish"]
  /\ UNCHANGED <<config, q_ij, myEdge, view, got, first, other>>

\* line 142
StepFinish(t) ==
  /\ pc[t] = "finish"
  /\ \E w \in Wild :
       numerics' = [numerics EXCEPT ![inst[t]] = FinishResidualCalc(@, nVar, w)]
  /\ tape' = [tape EXCEPT ![tapeOf[t]] = Play(@, inst[t], EvFinish)]
  /\ pc' = [pc EXCEPT ![t] = "close"]
  /\ UNCHANGED <<config, q_ij, myEdge, view, got, first, other>>

\* lines 144-145
StepClose(t) ==
  /\ pc[t] = "close"
  /\ tape' = [tape EXCEPT ![tapeOf[t]] = Play(@, inst[t], EvClose)]
  /\ pc' = [pc EXCEPT ![t] = "return"]
  /\ UNCHANGED <<config, numerics, q_ij, myEdge, view, got, first, other>>

\* line 147: the call returns its view and the caller reads it.
StepReturn(t) ==
  /\ pc[t] = "return"
  /\ view' = [view EXCEPT ![t] = ResidualType(inst[t], numerics[inst[t]])]
  /\ got' = [got EXCEPT ![t] =
               Deref(ResidualType(inst[t], numerics[inst[t]]), numerics)]
  /\ pc' = [pc EXCEPT ![t] = "done"]
  /\ UNCHANGED <<config, numerics, q_ij, myEdge, tape, first, other>>

NextConc ==
  \/ \E t \in DOMAIN pc : HandEdge(t)
  \/ \E t \in DOMAIN pc : StepOpen(t)
  \/ \E t \in DOMAIN pc : StepDensity(t)
  \/ \E t \in DOMAIN pc : StepSpeed(t)
  \/ \E t \in DOMAIN pc : StepSplit(t)
  \/ \E t \in DOMAIN pc : StepFinish(t)
  \/ \E t \in DOMAIN pc : StepClose(t)
  \/ \E t \in DOMAIN pc : StepReturn(t)

SpecConc == InitConc /\ [][NextConc]_vars

(***************************************************************************)
(* Properties.                                                             *)
(***************************************************************************)
Threads == DOMAIN pc

\* Thread t's latest call has returned.
Returned(t) == view[t] # NullView

Max(a, b) == IF a >= b THEN a ELSE b
Min(a, b) == IF a <= b THEN a ELSE b

\* f[0] + ... + f[n - 1]
RECURSIVE SumFn(_, _)
SumFn(f, n) == IF n = 0 THEN 0 ELSE f[n - 1] + SumFn(f, n - 1)

\* C1: after every ComputeResidual call the split coefficients are
\* a0 = max(q, 0) and a1 = min(q, 0) for the q of that call, hence a0 >= 0,
\* a1 <= 0 and a0 + a1 = q exactly.
C1_SplitIsMaxMin ==
  \A t \in Threads :
    Returned(t) =>
      LET o == numerics[inst[t]]
          q == q_ij[t]
      IN /\ o.a0 = Max(q, 0)
         /\ o.a1 = Min(q, 0)
         /\ o.a0 >= 0
         /\ o.a1 <= 0
         /\ o.a0 + o.a1 = q

\* A call on a moving mesh whose convective speed is negative: a0 = 0, a1 = q.
C1_Witness ==
  /\ Returned(1)
  /\ dynamic_grid
  /\ q_ij[1] < 0
  /\ numerics[1].a0 = 0
  /\ numerics[1].a1 = q_ij[1]

\* The convective speed of edge state x (half units): the sum over iDim of
\* (v_i + v_j) * Normal, v being the velocity at offset iDim + 1 of the
\* primitive state, less the grid velocity when moving is set.
RefSpeed(x, nd, moving) ==
  SumFn([d \in 0 .. nd - 1 |->
           ( (x.V_i[d + 1] - (IF moving THEN x.GridVel_i[d] ELSE 0))
           + (x.V_j[d + 1] - (IF moving THEN x.GridVel_j[d] ELSE 0)) )
           * x.Normal[d]], nd)

\* C10: q_ij is the sum over iDim < nDim of 0.5*(v_i + v_j)*Normal[iDim] with
\* the grid velocity subtracted if and only if dynamic_grid is set; with the
\* flag unset the grid velocities do not enter q; a zero face normal gives
\* q = 0 and a0 = a1 = 0.
C10_ConvectiveSpeed ==
  \A t \in Threads :
    Returned(t) =>
      LET x == myEdge[t]
          o == numerics[inst[t]]
      IN /\ q_ij[t] = RefSpeed(x, nDim, dynamic_grid)
         /\ ~dynamic_grid =>
              q_ij[t] = SumFn([d \in 0 .. nDim - 1 |->
                                 (x.V_i[d + 1] + x.V_j[d + 1]) * x.Normal[d]], nDim)
         /\ (\A d \in 0 .. nDim - 1 : x.Normal[d] = 0) =>
              q_ij[t] = 0 /\ o.a0 = 0 /\ o.a1 = 0

\* A call with the flag unset, a moving grid on side i and a non-zero speed.
C10_Witness ==
  /\ Returned(1)
  /\ ~dynamic_grid
  /\ myEdge[1].GridVel_i[0] # 0
  /\ q_ij[1] # 0
  /\ q_ij[1] = (myEdge[1].V_i[1] + myEdge[1].V_j[1]) * myEdge[1].Normal[0]

\* The flow moves with the grid on both sides of edge state x.
MovesWithGrid(x, nd) ==
  \A d \in 0 .. nd - 1 :
    x.V_i[d + 1] = x.GridVel_i[d] /\ x.V_j[d + 1] = x.GridVel_j[d]

\* C5: with dynamic_grid set and the flow velocity equal to the grid velocity
\* on both sides in every dimension, q = 0 and a0 = a1 = 0 whatever the
\* normal and the velocity, and the linear model's Flux is zero.
C5_GalileanInvariance ==
  \A t \in Threads :
    (Returned(t) /\ dynamic_grid /\ MovesWithGrid(myEdge[t], nDim)) =>
      /\ q_ij[t] = 0
      /\ numerics[inst[t]].a0 = 0
      /\ numerics[inst[t]].a1 = 0
      /\ \A k \in 0 .. nVar - 1 : got[t].Flux[k] = 0

\* Such a call with a non-zero velocity and a non-zero normal.
C5_Witness ==
  /\ Returned(1)
  /\ dynamic_grid
  /\ MovesWithGrid(myEdge[1], nDim)
  /\ myEdge[1].V_i[1] = 2
  /\ myEdge[1].V_j[1] = 2
  /\ myEdge[1].Normal[0] # 0
  /\ q_ij[1] = 0

\* C4: with the linear upwind model, the returned view holds
\* Flux[k] = a0*ScalarVar_i[k] + a1*ScalarVar_j[k], Jacobian_i = a0*I and
\* Jacobian_j = a1*I, where a0 = max(q, 0), a1 = min(q, 0) and q is the
\* convective speed of the edge; for nDim = 2, nVar = 1, Normal = [1, 0],
\* velocities [2, 0] and [-1, 0], no grid motion, scalars 3 and 5 this is
\* a0 = 0.5, a1 = 0, Flux = [1.5], Jacobian_i = [0.5], Jacobian_j = [0]
\* (in half units: 1, 0, 3, 1, 0).
C4_LinearModel ==
  \A t \in Threads :
    Returned(t) =>
      LET x  == myEdge[t]
          q  == RefSpeed(x, nDim, dynamic_grid)
          r0 == Max(q, 0)
          r1 == Min(q, 0)
          v  == got[t]
      IN /\ DOMAIN v.Flux = 0 .. nVar - 1
         /\ \A k \in 0 .. nVar - 1 :
              /\ v.Flux[k] = r0 * x.ScalarVar_i[k] + r1 * x.ScalarVar_j[k]
              /\ \A l \in 0 .. nVar - 1 :
                   /\ v.Jacobian_i[k][l] = (IF k = l THEN r0 ELSE 0)
                   /\ v.Jacobian_j[k][l] = (IF k = l THEN r1 ELSE 0)

\* The example of the claim.
C4_Witness ==
  /\ Returned(1)
  /\ nDim = 2 /\ nVar = 1 /\ ~dynamic_grid
  /\ myEdge[1].Normal = [d \in 0 .. 1 |-> IF d = 0 THEN 1 ELSE 0]
  /\ myEdge[1].V_i[1] = 2 /\ myEdge[1].V_i[2] = 0
  /\ myEdge[1].V_j[1] = -1 /\ myEdge[1].V_j[2] = 0
  /\ \A d \in 0 .. 1 : myEdge[1].GridVel_i[d] = 0 /\ myEdge[1].GridVel_j[d] = 0
  /\ myEdge[1].ScalarVar_i[0] = 3
  /\ myEdge[1].ScalarVar_j[0] = 5
  /\ numerics[1].a0 = 1 /\ numerics[1].a1 = 0
  /\ got[1].Flux[0] = 3
  /\ got[1].Jacobian_i[0][0] = 1
  /\ got[1].Jacobian_j[0][0] = 0

\* The events of log, without the engine that produced each.
Events(log) == [i \in 1 .. Len(log) |-> log[i][2]]

InputEvents ==
  {"In:Normal", "In:ScalarVar_i", "In:ScalarVar_j", "In:GridVel_i",
   "In:GridVel_j", "ExtraADPreaccIn"}

\* C2: every call produces exactly once and in this order: open scope; the
\* base inputs (normal, side-i scalars, side-j scalars, both grid velocities
\* only under dynamic_grid); ExtraADPreaccIn; the split and then
\* FinishResidualCalc; Flux registered as output; close scope.  No input is
\* registered after the first read of the flow state, no output before
\* FinishResidualCalc, and after any sequence of calls the scope is closed
\* and was never opened while open.
C2_TapeProtocol ==
  \A t \in Threads :
    LET ts == tape[tapeOf[t]]
        ev == Events(ts.log)
    IN /\ ~ts.open
       /\ ~ts.err
       /\ Returned(t) =>
            /\ ev = IF dynamic_grid
                    THEN <<"StartPreacc", "In:Normal", "In:ScalarVar_i",
                           "In:ScalarVar_j", "In:GridVel_i", "In:GridVel_j",
                           "ExtraADPreaccIn", "Read:V", "Split",
                           "FinishResidualCalc", "Out:Flux", "EndPreacc">>
                    ELSE <<"StartPreacc", "In:Normal", "In:ScalarVar_i",
                           "In:ScalarVar_j", "ExtraADPreaccIn", "Read:V",
                           "Split", "FinishResidualCalc", "Out:Flux",
                           "EndPreacc">>
            /\ \A i, j \in 1 .. Len(ev) :
                 /\ (ev[i] = "Read:V" /\ ev[j] \in InputEvents) => j < i
                 /\ (ev[i] = "Out:Flux" /\ ev[j] = "FinishResidualCalc") => j < i
       /\ ~Returned(t) => ev = <<>>

\* A second call on a fixed mesh has returned and the tape holds its scope.
C2_Witness ==
  /\ Returned(1)
  /\ other
  /\ ~dynamic_grid
  /\ Len(tape[1].log) = 10
  /\ tape[1].log[10] = <<1, "EndPreacc">>
  /\ ~tape[1].open

C9_ViewAliasesBuffers ==
  \A t \in Threads :
    Returned(t) =>
      /\ view[t] = firstView
      /\ Deref(firstView, numerics) = got[t]
      /\ firstView.ref = inst[t]

\* After a second call whose result differs from the first's, the first
\* view shows the second call's values, not the first's.
C9_Witness ==
  /\ Returned(1)
  /\ other
  /\ got[1] # firstOut
  /\ Deref(firstView, numerics) = got[1]
  /\ Deref(firstView, numerics) # firstOut

\* C7: after construction and before any call, every entry of Flux and of
\* both Jacobians is zero.
C7_BuffersZeroInitialised ==
  (\A t \in Threads : ~Returned(t)) =>
    \A e \in DOMAIN numerics :
      \A k, l \in 0 .. nVar - 1 :
        /\ numerics[e].Flux[k] = 0
        /\ numerics[e].Jacobian_i[k][l] = 0
        /\ numerics[e].Jacobian_j[k][l] = 0

\* C6: a mismatch between the widths of the vectors supplied and the
\* engine's nDim and nVar is detected at construction, so that no call of
\* ComputeResidual runs (and returns) on an engine whose dimensions do not
\* match the supplied state.
C6_MismatchRejected ==
  (callerDim # nDim \/ callerVar < nVar) => \A t \in Threads : ~Returned(t)

\* What a call on edge state x returns when nothing else runs: lines 111-148
\* on a freshly constructed engine.
Alone(x) ==
  LET o1 == ReadDensity(SetEdge(Constructor(nVar, 0), x), nDim, 0)
      q  == SpeedLoop(0, nDim, dynamic_grid, o1, 0, DeclareQ(0))
  IN Buffers(FinishResidualCalc(Split(o1, q), nVar, 0))

\* C8: with one engine and one tape per thread, every call returns what it
\* would return when run alone and uses the a0 and a1 of its own edge,
\* whatever the interleaving of the two threads' statements, and each tape
\* holds one engine's scope, opened and closed in order.  (With a shared engine a call can return something else:
\* C8_Witness.)
C8_OwnInstanceSafe ==
  (inst[1] # inst[2] /\ tapeOf[1] # tapeOf[2]) =>
    \A t \in Threads :
      /\ pc[t] = "done" => got[t] = Alone(myEdge[t])
      /\ pc[t] \in {"finish", "close", "return", "done"} =>
           /\ numerics[inst[t]].a0 = Max(RefSpeed(myEdge[t], nDim, dynamic_grid), 0)
           /\ numerics[inst[t]].a1 = Min(RefSpeed(myEdge[t], nDim, dynamic_grid), 0)
      /\ ~tape[tapeOf[t]].err
      /\ \A i \in 1 .. Len(tape[tapeOf[t]].log) :
           tape[tapeOf[t]].log[i][1] = inst[t]

\* Two threads share one engine, ran on different edge states, and the
\* first has returned a view that is not what its call produces alone.
C8_Witness ==
  /\ inst[1] = inst[2]
  /\ pc[1] = "done"
  /\ pc[2] = "done"
  /\ myEdge[1] # myEdge[2]
  /\ got[1] # Alone(myEdge[1])
  /\ got[2] = Alone(myEdge[2])

====
